---- MODULE Spec2Model ----
(***************************************************************************)
(* The cooperative timer scheduler of the coroutine cheat sheet:           *)
(* src/unnamed/part_000, second translation unit (lines 232-546), with the *)
(* millisecond clock of src/lib/timer/app_timer.cpp and the Instant of     *)
(* src/lib/timer/app_timer.hpp.                                            *)
(*                                                                         *)
(* One main thread runs main(): it starts the tasks (each runs eagerly to  *)
(* its first suspending co_await), then loops on poll_once() until the     *)
(* scheduler is empty.  The only other actor is the SIGALRM handler, which *)
(* increments the atomic counter _millis_c and may run between any two     *)
(* steps of the main thread.  Every main-thread action reads the clock at  *)
(* most once.                                                              *)
(*                                                                         *)
(* Time is scaled: one model tick stands for one clock unit, and delays    *)
(* are small numbers of ticks.  The counter starts at 0 and is capped by   *)
(* MaxClock, far from the wrap of its 64-bit representation.               *)
(*                                                                         *)
(* Further specifications over the same variables: the pool on its own     *)
(* (PoolSpec), task creation on a used pool (CreateSpec), an Instant with  *)
(* a wrapping counter (InstantSpec), and from src/unnamed/part_001 the     *)
(* two-stage scheduler (TwoStageSpec) and the ring buffer scheduler_queue, *)
(* its size N scaled down (RingSpec).                                      *)
(***************************************************************************)
EXTENDS Integers, Sequences, FiniteSets, TLC

(* ------------------------------ bounds -------------------------------- *)
\* largest number of co_await delay(..) the task bodies issue, all together
MaxAwaits == 3
\* largest duration passed to delay(), in ticks
MaxDelay == 2
\* the tick handler is not run beyond this clock value
MaxClock == 3

(* ------------------------- program constants -------------------------- *)
\* main() starts two tasks, fake_blink and fake_blink_2
NumTasks == 2
\* pool<256, 8>: slot size S and slot count N
el_size == 256
el_count == 8
\* size of a coroutine frame handed to operator new (debug build)
FrameSize == 168
\* the period of the len(coro) report in poll_once, 1'000ms, scaled to ticks
PrintPeriod == 2
\* size of a coroutine frame in a release build
FrameSizeRelease == 48
\* numeric_limits<rep>::max() of the tick representation, scaled
RepMax == 15

Tasks == 1..NumTasks
Slots == 1..el_count
\* a null pointer / an empty unique_ptr / a static not yet initialised
Null == 0
NoTime == -1

\* the size of the ring buffer: scheduler_queue::N, scaled down
N == 4
Cells == 0..(N - 1)

VARIABLES
  millis_c,     \* app::timer::_millis_c, the tick counter
  occupied,     \* pool::_elements[i].occupied
  coroutines,   \* simple_scheduler::_coroutines, a deque of handles: entry.h is the
                \* handle (the slot address of the frame); entry.n and entry.r are
                \* history: the number of the push_back call that made the entry
                \* and how many times resume() was called through it
  it,           \* the iterator of poll_once, as a position in the deque
  itValid,      \* FALSE once a push_back has invalidated the iterator
  instant,      \* the function-local static Instant of poll_once (time_)
  mpc,          \* where the main thread stands
  caller,       \* who gets control back when the running task suspends or ends
  running,      \* the task whose body is executing, or Null
  spawned,      \* how many tasks main() has started
  slot,         \* task -> the pool slot its frame lives in, or Null
  at,           \* task -> where its coroutine stands
  deadline,     \* task -> timer_awaitable::deadline of the co_await in progress
  pollable,     \* task -> promise_type::pollable (the deadline held), or NoTime
  frame_size,   \* the size the compiler passes to promise_type::operator new
  \* ---- history variables: they record what happened, the code never reads them
  started,      \* task -> clock value when the task was started
  awaits,       \* task -> how many delays it has issued so far
  owed,         \* task -> the sum of the durations of those delays
  suspensions,  \* task -> how many times await_suspend suspended it
  resumes,      \* task -> how many times poll_once resumed it
  pushes,       \* number of push_back calls so far
  sweepMark,    \* value of pushes when the current poll_once call started
  sweepStart,   \* coroutines when the current poll_once call started
  readyAtStart, \* tickets of the entries whose deadline was reached at that moment
  calls,        \* the last calls made on the pool or on an Instant, newest last:
                \* the operation, its argument, what it returned, and the state
                \* it was called in
  ticks,        \* how many ticks have occurred since the Instant was captured
  \* ---- the two-stage scheduler (event list and run queue)
  events,       \* simple_scheduler::_events: entry.h is the handle, entry.deadline
                \* the deadline of its timer_event; entry.n is history, the
                \* number of the add_event call that made the entry
  conts,        \* simple_scheduler::_conts, the run queue of handles
  runStart,     \* history: conts when the current run_and_empty call started
  runResumed,   \* history: the handles that call has resumed, in order
  \* ---- the ring buffer scheduler_queue
  head,         \* scheduler_queue::head
  tail,         \* scheduler_queue::tail
  arr,          \* scheduler_queue::arr
  pending,      \* history: the handles pushed and not yet popped, oldest first
  sweepPolled   \* the polls of the current poll_once call, in order: the entry
                \* polled (n) and its handle (h), whether its deadline was reached
                \* (due), and whether
                \* the coroutine was resumed

vars == <<millis_c, occupied, coroutines, it, itValid, instant, mpc, caller,
          running, spawned, slot, at, deadline, pollable, started, awaits,
          owed, suspensions, resumes, pushes, sweepMark,
          sweepStart, readyAtStart, sweepPolled, frame_size, calls, ticks,
          events, conts, runStart, runResumed, head, tail, arr, pending>>

\* the two-stage scheduler and the ring buffer
stage == <<events, conts, runStart, runResumed>>
ring == <<head, tail, arr, pending>>

\* what the program itself never changes
env == <<frame_size, calls, ticks, stage, ring>>
prog == <<mpc, caller, running, spawned>>
frames == <<slot, at, deadline, pollable>>
queue == <<coroutines, it, itValid>>
hist == <<started, awaits, owed, suspensions, resumes, pushes>>
sweep == <<sweepMark, sweepStart, readyAtStart, sweepPolled>>

(* --------------------------- pure functions --------------------------- *)

\* a tick handler that counts two per tick
timer_callback_twice(c) == (c + 2) % (RepMax + 1)

\* timer_callback: _millis_c++ on the unsigned counter, whose largest value
\* is RepMax
timer_callback(c) == (c + 1) % (RepMax + 1)

\* monotonic_clock::now(): the counter as a time point
now == millis_c

\* poll with > in place of >=
poll_late(n, dl) == n > dl

\* poll with the comparison off by one: ready one tick before the deadline
poll_early(n, dl) == n + 1 >= dl

\* poll that is true only at the deadline itself
poll_exact(n, dl) == n = dl

\* poll that reports every timer as expired
poll_always(n, dl) == TRUE

\* timer_pollable::poll
poll(n, dl) == n >= dl

\* is_ready with > in place of >=
is_ready_late(n, dl) == n > dl

\* is_ready with the comparison off by one
is_ready_early(n, dl) == n + 1 >= dl

\* timer_awaitable::is_ready
is_ready(n, dl) == n >= dl

\* co::delay: the deadline of a delay of d started at n
delay(n, d) == n + d

\* elapsed without the branch for now < time_
elapsed_nowrap(n, time_) == n - time_

\* Instant::elapsed
elapsed(n, time_) == IF n < time_ THEN n + (RepMax - time_) ELSE n - time_

\* has_elapsed that is true one tick early
has_elapsed_early(n, time_, d) == elapsed(n, time_) + 1 >= d

\* Instant::has_elapsed
has_elapsed(n, time_, d) == elapsed(n, time_) >= d

\* Instant::mut_elapsed_and_reset, the duration it returns
mut_elapsed_and_reset(n, time_) ==
  IF n < time_ THEN n + (RepMax - time_) ELSE n - time_

\* Instant::mut_elapsed_and_reset, the time_ it leaves: the function has no
\* assignment to time_
mut_elapsed_and_reset_time(n, time_) == time_

\* a mut_reset that leaves time_ as it is
mut_reset_kept(n, time_) == time_

\* Instant::mut_reset: time_ = clock::now()
mut_reset(n, time_) == n

\* allocate that hands out the first slot again when none is free
allocate_reuse(occ, size) ==
  IF size > el_size THEN Null
  ELSE IF \E i \in Slots : ~occ[i]
       THEN CHOOSE i \in Slots : ~occ[i] /\ \A j \in 1..(i-1) : occ[j]
       ELSE 1

\* allocate whose scan stops one slot short of the end
allocate_short(occ, size) ==
  IF size > el_size THEN Null
  ELSE IF \E i \in 1..(el_count - 1) : ~occ[i]
       THEN CHOOSE i \in 1..(el_count - 1) : ~occ[i] /\ \A j \in 1..(i-1) : occ[j]
       ELSE Null

\* allocate whose size check is >= in place of >
allocate_ge(occ, size) ==
  IF size >= el_size THEN Null
  ELSE IF \E i \in Slots : ~occ[i]
       THEN CHOOSE i \in Slots : ~occ[i] /\ \A j \in 1..(i-1) : occ[j]
       ELSE Null

\* allocate that scans from the last slot down
allocate_last(occ, size) ==
  IF size > el_size THEN Null
  ELSE IF \E i \in Slots : ~occ[i]
       THEN CHOOSE i \in Slots : ~occ[i] /\ \A j \in (i+1)..el_count : occ[j]
       ELSE Null

\* allocate without the size check
allocate_nocheck(occ, size) ==
  IF \E i \in Slots : ~occ[i]
  THEN CHOOSE i \in Slots : ~occ[i] /\ \A j \in 1..(i-1) : occ[j]
  ELSE Null

\* allocate that does not look at the occupied flags: always the first slot
allocate_fixed(occ, size) == IF size > el_size THEN Null ELSE 1

\* pool::allocate: the first unoccupied slot, Null when size > S or none is free
allocate(occ, size) ==
  IF size > el_size THEN Null
  ELSE IF \E i \in Slots : ~occ[i]
       THEN CHOOSE i \in Slots : ~occ[i] /\ \A j \in 1..(i-1) : occ[j]
       ELSE Null

\* pool::allocate, the store  e.occupied = true  on the slot it returns
mark(occ, p) == IF p = Null THEN occ ELSE [occ EXCEPT ![p] = TRUE]

\* push_back that loses the handle
push_back_lost(q, h) == q

\* push_back that queues the handle twice
push_back_twice(q, h) == Append(Append(q, h), h)

\* push_front in place of push_back
push_front(q, h) == <<h>> \o q

\* simple_scheduler::push_back
push_back(q, h) == Append(q, h)

\* pop_front in place of erase(it): the first entry is removed
erase_front(q, i) == Tail(q)

\* pop_back in place of erase(it): the last entry is removed
erase_back(q, i) == SubSeq(q, 1, Len(q) - 1)

\* an erase that leaves the entry in place
erase_kept(q, i) == q

\* deque::erase(it): the deque without its entry at position i
erase(q, i) == SubSeq(q, 1, i-1) \o SubSeq(q, i+1, Len(q))

\* erase followed by ++it: the entry that followed is skipped
erase_skip(i) == i + 1

\* the iterator erase returns: the position of the entry that followed
erase_next(i) == i

\* ++it
advance(i) == i + 1

\* the end of the deque as it was when poll_once was called: the entries
\* pushed since then are left out
at_end_snapshot(i, q) == i > Len(q) - (pushes - sweepMark)

\* it != _coroutines.end() is false
at_end(i, q) == i > Len(q)

\* scheduler_queue::push_back, the array it leaves: arr[head] = h
ring_push_back(a, hd, h) == [a EXCEPT ![hd] = h]

\* scheduler_queue::push_back and pop_front, the index they leave:
\* (i + 1) % N
ring_next(i) == (i + 1) % N

\* scheduler_queue::try_pop_front, the handle it returns:
\* head != tail ? pop_front() : coro_handle{}
ring_try_pop_front(a, hd, tl) == IF hd # tl THEN a[tl] ELSE Null

\* a poll_ready that is true whatever the clock says
poll_ready_always(n, dl) == TRUE

\* delay_awaitable::timer_event::poll_ready
poll_ready(n, dl) == n >= dl

\* simple_scheduler::add_event: _events.emplace_back
add_event(evs, e) == Append(evs, e)

\* simple_scheduler::try_pop_front, the handle it returns: a null handle when
\* the run queue is empty, else its front
try_pop_front(q) == IF Len(q) = 0 THEN Null ELSE Head(q)

\* simple_scheduler::try_pop_front, the run queue it leaves: pop_front
pop_front(q) == IF Len(q) = 0 THEN q ELSE Tail(q)

\* simple_scheduler::done
done(cs, evs) == Len(cs) = 0 /\ Len(evs) = 0

\* an empty that is already true with one entry left
empty_one(q) == Len(q) <= 1

\* simple_scheduler::empty
empty(q) == Len(q) = 0

\* initial_suspend returning suspend_always: the new frame waits for a resume
initial_suspend_always == "suspended"

\* promise_type::initial_suspend returns suspend_never: the body starts at once
initial_suspend == "body"

\* a resume that sets every Suspended frame running
resume_all(a, t) == [u \in DOMAIN a |-> IF a[u] = "suspended" THEN "body" ELSE a[u]]

\* coroutine.resume(): the frame goes on in its body, after the co_await
resume(a, t) == [a EXCEPT ![t] = "body"]

\* await_suspend that forgets to attach the timer_pollable
attach_none(p, t, dl) == p

\* await_suspend that keeps a timer_pollable the promise already holds
attach_first(p, t, dl) == IF p[t] # NoTime THEN p ELSE [p EXCEPT ![t] = dl]

\* await_suspend: promise.pollable = make_unique<timer_pollable>(deadline);
\* the assignment destroys the timer_pollable held before
attach(p, t, dl) == [p EXCEPT ![t] = dl]

\* a pointer match that also accepts nullptr and addresses outside the pool
owns_any(ptr) == TRUE

\* pool::deallocate finds the slot whose storage is ptr (otherwise it terminates)
owns(ptr) == ptr \in Slots

\* deallocate that flips the slot's flag
deallocate_toggle(occ, ptr) == [occ EXCEPT ![ptr] = ~@]

\* deallocate that frees every slot
deallocate_all(occ, ptr) == [i \in DOMAIN occ |-> FALSE]

\* deallocate that finds the slot and leaves it occupied
deallocate_none(occ, ptr) == occ

\* pool::deallocate, for a ptr the pool owns
deallocate(occ, ptr) == [occ EXCEPT ![ptr] = FALSE]

(* ------------------------------ helpers ------------------------------- *)

\* the number of co_await delay(..) issued so far by tasks 1..k
RECURSIVE TotalAwaits(_)
TotalAwaits(k) == IF k = 0 THEN 0 ELSE awaits[k] + TotalAwaits(k - 1)

\* the number of times tasks 1..k were suspended by await_suspend
RECURSIVE TotalSuspensions(_)
TotalSuspensions(k) == IF k = 0 THEN 0 ELSE suspensions[k] + TotalSuspensions(k - 1)

Running(t) == at[t] \in {"body", "await_ready", "await_suspend"}
Suspended(t) == at[t] = "suspended"
Completed(t) == at[t] = "done"
Live(t) == Running(t) \/ Suspended(t)

\* the task whose frame lives at the address a handle holds
HasFrame(h) == \E t \in Tasks : slot[t] = h /\ Live(t)
FrameAt(h) == CHOOSE t \in Tasks : slot[t] = h /\ Live(t)

(* ------------------------------- Init --------------------------------- *)

\* a scheduler with no event and no handle queued
NoStage ==
  /\ events = <<>>
  /\ conts = <<>>
  /\ runStart = <<>>
  /\ runResumed = <<>>

\* a scheduler_queue as constructed: head = tail = 0, arr of null handles
NoRing ==
  /\ head = 0
  /\ tail = 0
  /\ arr = [i \in Cells |-> Null]
  /\ pending = <<>>

Init ==
  /\ millis_c = 0
  /\ occupied = [i \in Slots |-> FALSE]
  /\ coroutines = <<>>
  /\ it = 1
  /\ itValid = TRUE
  /\ instant = NoTime
  /\ mpc = "spawn"
  /\ caller = "spawn"
  /\ running = Null
  /\ spawned = 0
  /\ slot = [t \in Tasks |-> Null]
  /\ at = [t \in Tasks |-> "none"]
  /\ deadline = [t \in Tasks |-> NoTime]
  /\ pollable = [t \in Tasks |-> NoTime]
  /\ started = [t \in Tasks |-> NoTime]
  /\ awaits = [t \in Tasks |-> 0]
  /\ owed = [t \in Tasks |-> 0]
  /\ suspensions = [t \in Tasks |-> 0]
  /\ resumes = [t \in Tasks |-> 0]
  /\ pushes = 0
  /\ sweepMark = 0
  /\ sweepStart = <<>>
  /\ readyAtStart = {}
  /\ sweepPolled = <<>>
  /\ frame_size = FrameSize
  /\ calls = <<>>
  /\ ticks = 0
  /\ NoStage
  /\ NoRing

(* ------------------------------ actions ------------------------------- *)

\* timer_callback, the SIGALRM handler: _millis_c++
Tick ==
  /\ millis_c < MaxClock
  /\ millis_c' = timer_callback(millis_c)
  /\ UNCHANGED <<env, occupied, queue, instant, prog, frames, hist, sweep>>

\* control goes back to whoever started or resumed the task
ReturnTo(c) == IF c = "spawn" THEN "spawn" ELSE "erase"

\* main(): co::fake_blink(); co::fake_blink_2();  The frame is allocated by
\* promise_type::operator new; initial_suspend is suspend_never, so the body
\* starts inside the call.
Spawn ==
  /\ mpc = "spawn"
  /\ spawned < NumTasks
  /\ LET t == spawned + 1
         p == allocate(occupied, frame_size)
     IN IF p = Null
        THEN \* assert(p != nullptr) stops the process; where NDEBUG compiles
             \* the assert out, the coroutine state is set up at the null
             \* pointer operator new returned, and the first store to it
             \* faults
             /\ mpc' \in {"aborted", "crashed"}
             /\ UNCHANGED <<env, millis_c, occupied, queue, instant, caller, running,
                            spawned, frames, hist, sweep>>
        ELSE /\ occupied' = mark(occupied, p)
             /\ slot' = [slot EXCEPT ![t] = p]
             /\ at' = [at EXCEPT ![t] = initial_suspend]
             /\ started' = [started EXCEPT ![t] = now]
             /\ spawned' = t
             /\ running' = t
             /\ caller' = "spawn"
             /\ mpc' = "task"
             /\ UNCHANGED <<env, millis_c, queue, instant, deadline, pollable, awaits, owed,
                            suspensions, resumes, pushes, sweep>>

\* main(): std::println("start"), then the driving loop
SpawnDone ==
  /\ mpc = "spawn"
  /\ spawned = NumTasks
  /\ mpc' = "loop"
  /\ UNCHANGED <<env, millis_c, occupied, queue, instant, caller, running, spawned,
                 frames, hist, sweep>>

\* the task body reaches its next  co_await delay(d):  delay() reads the clock
TaskDelay ==
  /\ mpc = "task"
  /\ at[running] = "body"
  /\ TotalAwaits(NumTasks) < MaxAwaits
  /\ \E d \in 0..MaxDelay :
       /\ delay(now, d) <= MaxClock
       /\ deadline' = [deadline EXCEPT ![running] = delay(now, d)]
       /\ owed' = [owed EXCEPT ![running] = @ + d]
  /\ at' = [at EXCEPT ![running] = "await_ready"]
  /\ awaits' = [awaits EXCEPT ![running] = @ + 1]
  /\ UNCHANGED <<env, millis_c, occupied, queue, instant, prog, slot, pollable,
                 started, suspensions, resumes, pushes, sweep>>

\* timer_awaitable::await_ready
AwaitReady ==
  /\ mpc = "task"
  /\ at[running] = "await_ready"
  /\ IF is_ready(now, deadline[running])
     THEN \* await_resume; the awaitable temporary is gone
          /\ at' = [at EXCEPT ![running] = "body"]
          /\ deadline' = [deadline EXCEPT ![running] = NoTime]
     ELSE /\ at' = [at EXCEPT ![running] = "await_suspend"]
          /\ UNCHANGED deadline
  /\ UNCHANGED <<env, millis_c, occupied, queue, instant, prog, slot, pollable, hist,
                 sweep>>

\* timer_awaitable::await_suspend
AwaitSuspend ==
  /\ mpc = "task"
  /\ at[running] = "await_suspend"
  /\ IF is_ready(now, deadline[running])
     THEN \* return false: the coroutine goes on
          /\ at' = [at EXCEPT ![running] = "body"]
          /\ deadline' = [deadline EXCEPT ![running] = NoTime]
          /\ UNCHANGED <<env, millis_c, occupied, queue, instant, prog, slot, pollable,
                         hist, sweep>>
     ELSE \* attach the timer_pollable, push the handle, return true
          /\ pollable' = attach(pollable, running, deadline[running])
          /\ coroutines' = push_back(coroutines, [h |-> slot[running], n |-> pushes + 1, r |-> 0])
          /\ pushes' = pushes + 1
          /\ itValid' = FALSE
          /\ suspensions' = [suspensions EXCEPT ![running] = @ + 1]
          /\ at' = [at EXCEPT ![running] = "suspended"]
          /\ running' = Null
          /\ mpc' = ReturnTo(caller)
          /\ UNCHANGED <<env, millis_c, occupied, it, instant, caller, spawned, slot,
                         deadline, started, awaits, owed, resumes, sweep>>

\* the task body ends: return_void, final_suspend is suspend_never, so the
\* frame is destroyed (the promise with its pollable) and operator delete
\* gives the slot back
TaskFinish ==
  /\ mpc = "task"
  /\ at[running] = "body"
  /\ IF ~owns(slot[running])
     THEN \* pool::deallocate: std::terminate()
          /\ mpc' = "aborted"
          /\ UNCHANGED <<env, millis_c, occupied, queue, instant, caller, running,
                         spawned, frames, hist, sweep>>
     ELSE /\ occupied' = deallocate(occupied, slot[running])
          /\ pollable' = [pollable EXCEPT ![running] = NoTime]
          /\ at' = [at EXCEPT ![running] = "done"]
          /\ running' = Null
          /\ mpc' = ReturnTo(caller)
          /\ UNCHANGED <<env, millis_c, queue, instant, caller, spawned, slot, deadline,
                         started, awaits, owed, suspensions, resumes, pushes, sweep>>

\* main(): while (not scheduler.empty()) scheduler.poll_once();
LoopTest ==
  /\ mpc = "loop"
  /\ IF empty(coroutines)
     THEN /\ mpc' = "done"
          /\ UNCHANGED sweep
     ELSE /\ mpc' = IF instant = NoTime THEN "poll_init" ELSE "poll_every"
          /\ sweepMark' = pushes
          /\ sweepStart' = coroutines
          /\ readyAtStart' =
               {coroutines[i].n : i \in {j \in 1..Len(coroutines) :
                   /\ HasFrame(coroutines[j].h)
                   /\ now >= pollable[FrameAt(coroutines[j].h)]}}
          /\ sweepPolled' = <<>>
  /\ UNCHANGED <<env, millis_c, occupied, queue, instant, caller, running, spawned,
                 frames, hist>>

\* poll_once, first call:  static auto instant = app::timer::Instant::now();
PollInit ==
  /\ mpc = "poll_init"
  /\ instant' = now
  /\ mpc' = "poll_every"
  /\ UNCHANGED <<env, millis_c, occupied, queue, caller, running, spawned, frames,
                 hist, sweep>>

\* poll_once:  instant.mut_every(1'000ms), the has_elapsed part; when it is
\* false the sweep starts:  auto it = _coroutines.begin();
PollEvery ==
  /\ mpc = "poll_every"
  /\ IF has_elapsed(now, instant, PrintPeriod)
     THEN /\ mpc' = "poll_reset"
          /\ UNCHANGED <<it, itValid>>
     ELSE /\ mpc' = "sweep"
          /\ it' = 1
          /\ itValid' = TRUE
  /\ UNCHANGED <<env, millis_c, occupied, coroutines, instant, caller, running,
                 spawned, frames, hist, sweep>>

\* poll_once:  mut_reset() inside mut_every, the println, then the sweep starts
PollReset ==
  /\ mpc = "poll_reset"
  /\ instant' = mut_reset(now, instant)
  /\ mpc' = "sweep"
  /\ it' = 1
  /\ itValid' = TRUE
  /\ UNCHANGED <<env, millis_c, occupied, coroutines, caller, running, spawned,
                 frames, hist, sweep>>

\* poll_once, the loop body up to resume():  pollable.poll() reads the clock;
\* a ready coroutine is resumed, otherwise ++it
SweepPoll ==
  /\ mpc = "sweep"
  /\ ~at_end(it, coroutines)
  /\ LET e == coroutines[it] IN
     IF ~HasFrame(e.h)
     THEN \* the handle dangles
          /\ mpc' = "aborted"
          /\ UNCHANGED <<env, millis_c, occupied, queue, instant, caller, running,
                         spawned, frames, hist, sweep>>
     ELSE LET t == FrameAt(e.h)
              r == poll(now, pollable[t])
          IN /\ sweepPolled' = Append(sweepPolled,
                   [n |-> e.n, h |-> e.h, due |-> now >= pollable[t], resumed |-> r])
             /\ IF r
                THEN \* await_resume; the awaitable temporary is gone
                     /\ at' = resume(at, t)
                     /\ deadline' = [deadline EXCEPT ![t] = NoTime]
                     /\ resumes' = [resumes EXCEPT ![t] = @ + 1]
                     /\ running' = t
                     /\ caller' = "resume"
                     /\ mpc' = "task"
                     /\ coroutines' = [coroutines EXCEPT ![it].r = @ + 1]
                     /\ UNCHANGED <<it>>
                ELSE /\ it' = advance(it)
                     /\ UNCHANGED <<at, deadline, resumes, running, caller, mpc,
                                    coroutines>>
             /\ UNCHANGED <<env, millis_c, occupied, itValid, instant,
                            spawned, slot, pollable, started, awaits, owed,
                            suspensions, pushes, sweepMark, sweepStart,
                            readyAtStart>>

\* poll_once, after resume() has returned:  it = _coroutines.erase(it);
\* A push_back made during the resume has invalidated every iterator of the
\* deque, so using it here is undefined: where the library keeps iterators as
\* positions the entry is erased; a build with debug iterators (MSVC
\* _ITERATOR_DEBUG_LEVEL 2, libstdc++ _GLIBCXX_DEBUG) stops the process.
Erase ==
  /\ mpc = "erase"
  /\ \/ /\ coroutines' = erase(coroutines, it)
        /\ it' = erase_next(it)
        /\ itValid' = TRUE
        /\ mpc' = "sweep"
     \/ /\ ~itValid
        /\ mpc' = "aborted"
        /\ UNCHANGED queue
  /\ UNCHANGED <<env, millis_c, occupied, instant, caller, running, spawned, frames,
                 hist, sweep>>

\* poll_once returns when the iterator reaches the end of the deque
SweepEnd ==
  /\ mpc = "sweep"
  /\ at_end(it, coroutines)
  /\ mpc' = "loop"
  /\ UNCHANGED <<env, millis_c, occupied, queue, instant, caller, running, spawned,
                 frames, hist, sweep>>

MainStep ==
  \/ Spawn \/ SpawnDone \/ TaskDelay \/ AwaitReady \/ AwaitSuspend \/ TaskFinish
  \/ LoopTest \/ PollInit \/ PollEvery \/ PollReset \/ SweepPoll \/ Erase
  \/ SweepEnd

Next == Tick \/ MainStep

Spec == Init /\ [][Next]_vars

\* the timer keeps firing and the main thread keeps running
FairSpec == Spec /\ WF_vars(Tick) /\ WF_vars(MainStep)

\* the main thread keeps running; nothing is assumed of the timer
MainFairSpec == Spec /\ WF_vars(MainStep)

(* ------------------------ the pool on its own ------------------------- *)

\* the sizes asked of allocate: one byte, a coroutine frame, exactly a slot,
\* one byte more than a slot
Sizes == {1, FrameSize, el_size, el_size + 1}

\* the pointers handed to deallocate: nullptr, the storage of each slot, and
\* an address outside the pool
Ptrs == 0..(el_count + 1)

\* the record of calls keeps the last two
Last2(q, c) == IF Len(q) < 2 THEN Append(q, c) ELSE <<q[2], c>>

\* deallocate has not been called since the pool was constructed
Fresh == calls = <<>> \/ calls[Len(calls)].fresh

\* the pointers that allocate has returned and that were not handed to
\* deallocate since
Outstanding == IF calls = <<>> THEN {} ELSE calls[Len(calls)].out

\* pool(): every slot unoccupied; the program itself is not started
PoolInit ==
  /\ millis_c = 0
  /\ occupied = [i \in Slots |-> FALSE]
  /\ coroutines = <<>>
  /\ it = 1
  /\ itValid = TRUE
  /\ instant = NoTime
  /\ mpc = "pool"
  /\ caller = "spawn"
  /\ running = Null
  /\ spawned = 0
  /\ slot = [t \in Tasks |-> Null]
  /\ at = [t \in Tasks |-> "none"]
  /\ deadline = [t \in Tasks |-> NoTime]
  /\ pollable = [t \in Tasks |-> NoTime]
  /\ started = [t \in Tasks |-> NoTime]
  /\ awaits = [t \in Tasks |-> 0]
  /\ owed = [t \in Tasks |-> 0]
  /\ suspensions = [t \in Tasks |-> 0]
  /\ resumes = [t \in Tasks |-> 0]
  /\ pushes = 0
  /\ sweepMark = 0
  /\ sweepStart = <<>>
  /\ readyAtStart = {}
  /\ sweepPolled = <<>>
  /\ frame_size = FrameSize
  /\ calls = <<>>
  /\ ticks = 0
  /\ NoStage
  /\ NoRing

\* pool.allocate(size)
PoolAllocate ==
  /\ mpc = "pool"
  /\ \E size \in Sizes :
       LET p == allocate(occupied, size)
       IN /\ occupied' = mark(occupied, p)
          /\ calls' = Last2(calls, [op |-> "allocate", arg |-> size, ret |-> p,
                                    pre |-> occupied, fresh |-> Fresh,
                                    out |-> Outstanding \cup ({p} \ {Null})])
  /\ UNCHANGED <<millis_c, queue, instant, prog, frames, hist, sweep, frame_size, stage, ring,
                 ticks>>

\* pool.deallocate(ptr): std::terminate() when no slot's storage is ptr
PoolDeallocate ==
  /\ mpc = "pool"
  /\ \E ptr \in Ptrs :
       /\ IF owns(ptr)
          THEN /\ occupied' = deallocate(occupied, ptr)
               /\ UNCHANGED mpc
          ELSE /\ mpc' = "terminated"
               /\ UNCHANGED occupied
       /\ calls' = Last2(calls, [op |-> "deallocate", arg |-> ptr, ret |-> Null,
                                 pre |-> occupied, fresh |-> FALSE,
                                 out |-> Outstanding \ {ptr}])
  /\ UNCHANGED <<millis_c, queue, instant, caller, running, spawned, frames, hist,
                 sweep, frame_size, stage, ring, ticks>>

PoolNext == PoolAllocate \/ PoolDeallocate

PoolSpec == PoolInit /\ [][PoolNext]_vars

(* ----------------------- an Instant on its own ------------------------ *)

\* no Instant is constructed yet; the counter starts at 0
InstantInit ==
  /\ millis_c = 0
  /\ occupied = [i \in Slots |-> FALSE]
  /\ coroutines = <<>>
  /\ it = 1
  /\ itValid = TRUE
  /\ instant = NoTime
  /\ mpc = "instant"
  /\ caller = "spawn"
  /\ running = Null
  /\ spawned = 0
  /\ slot = [t \in Tasks |-> Null]
  /\ at = [t \in Tasks |-> "none"]
  /\ deadline = [t \in Tasks |-> NoTime]
  /\ pollable = [t \in Tasks |-> NoTime]
  /\ started = [t \in Tasks |-> NoTime]
  /\ awaits = [t \in Tasks |-> 0]
  /\ owed = [t \in Tasks |-> 0]
  /\ suspensions = [t \in Tasks |-> 0]
  /\ resumes = [t \in Tasks |-> 0]
  /\ pushes = 0
  /\ sweepMark = 0
  /\ sweepStart = <<>>
  /\ readyAtStart = {}
  /\ sweepPolled = <<>>
  /\ frame_size = FrameSize
  /\ calls = <<>>
  /\ ticks = 0
  /\ NoStage
  /\ NoRing

\* the durations handed to mut_every
Durations == 0..MaxDelay

\* the tick count kept since the capture goes a little beyond one wrap
MaxTicks == RepMax + 3

\* timer_callback with nothing holding the counter back: it wraps after RepMax
InstantTick ==
  /\ mpc \in {"instant", "instant_reset"}
  /\ ticks < MaxTicks
  /\ millis_c' = timer_callback(millis_c)
  /\ ticks' = ticks + 1
  /\ UNCHANGED <<frame_size, stage, ring, calls, occupied, queue, instant, prog, frames, hist,
                 sweep>>

\* Instant::now(), Instant(): time_ = clock::now()
InstantNow ==
  /\ mpc = "instant"
  /\ instant' = now
  /\ ticks' = 0
  /\ calls' = <<[op |-> "now", arg |-> instant, ret |-> now, pre |-> now]>>
  /\ UNCHANGED <<millis_c, occupied, queue, prog, frames, hist, sweep, frame_size, stage, ring>>

\* Instant::elapsed() const
InstantElapsed ==
  /\ mpc = "instant"
  /\ instant # NoTime
  /\ calls' = <<[op |-> "elapsed", arg |-> instant, ret |-> elapsed(now, instant),
                 pre |-> now, since |-> ticks]>>
  /\ UNCHANGED <<millis_c, occupied, queue, instant, prog, frames, hist, sweep,
                 frame_size, stage, ring, ticks>>

\* Instant::mut_every(d), the has_elapsed part: elapsed() reads the clock;
\* when the result is false the call returns
InstantEvery ==
  /\ mpc = "instant"
  /\ instant # NoTime
  /\ \E d \in Durations :
       LET gt == has_elapsed(now, instant, d)
       IN /\ calls' = <<[op |-> "mut_every", arg |-> d, ret |-> gt, pre |-> now,
                         was |-> instant, since |-> ticks, done |-> ~gt]>>
          /\ mpc' = IF gt THEN "instant_reset" ELSE "instant"
  /\ UNCHANGED <<millis_c, occupied, queue, instant, caller, running, spawned,
                 frames, hist, sweep, frame_size, stage, ring, ticks>>

\* Instant::mut_every(d), when gt: mut_reset() reads the clock again, and the
\* call returns true
InstantReset ==
  /\ mpc = "instant_reset"
  /\ instant' = mut_reset(now, instant)
  /\ ticks' = 0
  /\ calls' = <<[calls[1] EXCEPT !.done = TRUE]>>
  /\ mpc' = "instant"
  /\ UNCHANGED <<millis_c, occupied, queue, caller, running, spawned, frames,
                 hist, sweep, frame_size, stage, ring>>

\* Instant::mut_elapsed_and_reset()
InstantElapsedAndReset ==
  /\ mpc = "instant"
  /\ instant # NoTime
  /\ calls' = <<[op |-> "mut_elapsed_and_reset", arg |-> instant,
                 ret |-> mut_elapsed_and_reset(now, instant), pre |-> now,
                 since |-> ticks]>>
  /\ instant' = mut_elapsed_and_reset_time(now, instant)
  /\ UNCHANGED <<millis_c, occupied, queue, prog, frames, hist, sweep,
                 frame_size, stage, ring, ticks>>

InstantNext ==
  \/ InstantTick \/ InstantNow \/ InstantElapsed \/ InstantEvery \/ InstantReset
  \/ InstantElapsedAndReset

InstantSpec == InstantInit /\ [][InstantNext]_vars

(* ------------- the two-stage scheduler (event list, run queue) -------- *)

\* what the second program does not have: the pool, the single queue and its
\* Instant, and the harness records
single == <<frame_size, calls, ticks, ring, occupied, slot, pollable, coroutines,
            itValid, instant, sweepMark, readyAtStart>>

\* control goes back to main or to run_and_empty
EvReturnTo(c) == IF c = "spawn" THEN "spawn" ELSE "run"

\* main(): co::fake_blink(); co::fake_blink_2();  void_task::initial_suspend
\* is suspend_never, so the body starts inside the call
EvSpawn ==
  /\ mpc = "spawn"
  /\ spawned < NumTasks
  /\ LET t == spawned + 1
     IN /\ at' = [at EXCEPT ![t] = "body"]
        /\ started' = [started EXCEPT ![t] = now]
        /\ spawned' = t
        /\ running' = t
  /\ caller' = "spawn"
  /\ mpc' = "task"
  /\ UNCHANGED <<single, stage, millis_c, it, deadline, awaits, owed, suspensions,
                 resumes, pushes, sweepStart, sweepPolled>>

\* main(): std::println("start"), then the driving loop
EvSpawnDone ==
  /\ mpc = "spawn"
  /\ spawned = NumTasks
  /\ mpc' = "ev_loop"
  /\ UNCHANGED <<single, stage, millis_c, it, caller, running, spawned, at, deadline,
                 hist, sweepStart, sweepPolled>>

\* delay_awaitable::await_suspend: the timer_event is registered with the
\* scheduler
EvAwaitSuspend ==
  /\ mpc = "task"
  /\ at[running] = "await_suspend"
  /\ IF is_ready(now, deadline[running])
     THEN \* return false: the coroutine goes on
          /\ at' = [at EXCEPT ![running] = "body"]
          /\ deadline' = [deadline EXCEPT ![running] = NoTime]
          /\ UNCHANGED <<events, pushes, suspensions, running, mpc>>
     ELSE /\ events' = add_event(events, [h |-> running, deadline |-> deadline[running],
                                           n |-> pushes + 1])
          /\ pushes' = pushes + 1
          /\ suspensions' = [suspensions EXCEPT ![running] = @ + 1]
          /\ at' = [at EXCEPT ![running] = "suspended"]
          /\ deadline' = [deadline EXCEPT ![running] = NoTime]
          /\ running' = Null
          /\ mpc' = EvReturnTo(caller)
  /\ UNCHANGED <<single, millis_c, it, conts, runStart, runResumed, caller, spawned,
                 started, awaits, owed, resumes, sweepStart, sweepPolled>>

\* the task body ends: void_task::final_suspend is suspend_never, the frame
\* is destroyed
EvTaskFinish ==
  /\ mpc = "task"
  /\ at[running] = "body"
  /\ at' = [at EXCEPT ![running] = "done"]
  /\ running' = Null
  /\ mpc' = EvReturnTo(caller)
  /\ UNCHANGED <<single, stage, millis_c, it, caller, spawned, deadline, hist,
                 sweepStart, sweepPolled>>

\* main(): while (not scheduler.done()) { poll_events(); ... }, and
\* poll_events:  auto it = _events.begin();
EvLoopTest ==
  /\ mpc = "ev_loop"
  /\ IF done(conts, events)
     THEN /\ mpc' = "ev_done"
          /\ UNCHANGED <<it, sweepStart, sweepPolled, runStart, runResumed>>
     ELSE /\ mpc' = "poll_events"
          /\ it' = 1
          /\ sweepStart' = events
          /\ sweepPolled' = <<>>
          /\ runStart' = <<>>
          /\ runResumed' = <<>>
  /\ UNCHANGED <<single, millis_c, events, conts, caller, running, spawned, at,
                 deadline, hist>>

\* poll_events, the loop body: poll_ready() reads the clock; the handle of a
\* ready event is put on the run queue and the event erased, otherwise ++it
PollEvents ==
  /\ mpc = "poll_events"
  /\ ~at_end(it, events)
  /\ LET e == events[it]
         r == poll_ready(now, e.deadline)
     IN /\ sweepPolled' = Append(sweepPolled,
              [n |-> e.n, h |-> e.h, due |-> now >= e.deadline, moved |-> r])
        /\ IF r
           THEN /\ conts' = Append(conts, e.h)
                /\ events' = erase(events, it)
                /\ it' = erase_next(it)
           ELSE /\ it' = advance(it)
                /\ UNCHANGED <<conts, events>>
  /\ UNCHANGED <<single, millis_c, runStart, runResumed, prog, at, deadline, hist,
                 sweepStart>>

\* poll_events returns, and run_and_empty is called
PollEventsEnd ==
  /\ mpc = "poll_events"
  /\ at_end(it, events)
  /\ mpc' = "run"
  /\ runStart' = conts
  /\ runResumed' = <<>>
  /\ UNCHANGED <<single, millis_c, it, events, conts, caller, running, spawned, at,
                 deadline, hist, sweepStart, sweepPolled>>

\* run_and_empty:  while (auto h = try_pop_front()) h.resume();
RunAndEmpty ==
  /\ mpc = "run"
  /\ LET h == try_pop_front(conts)
     IN /\ conts' = pop_front(conts)
        /\ IF h = Null
           THEN \* the loop ends, run_and_empty returns
                /\ mpc' = "ev_loop"
                /\ UNCHANGED <<at, resumes, running, caller, runResumed>>
           ELSE /\ at' = resume(at, h)
                /\ resumes' = [resumes EXCEPT ![h] = @ + 1]
                /\ running' = h
                /\ caller' = "resume"
                /\ mpc' = "task"
                /\ runResumed' = Append(runResumed, h)
  /\ UNCHANGED <<single, millis_c, it, events, runStart, spawned, deadline, started,
                 awaits, owed, suspensions, pushes, sweepStart, sweepPolled>>

\* the delay and await_ready of this program are those of the first
TwoStageMain ==
  \/ EvSpawn \/ EvSpawnDone \/ TaskDelay \/ AwaitReady \/ EvAwaitSuspend
  \/ EvTaskFinish \/ EvLoopTest \/ PollEvents \/ PollEventsEnd \/ RunAndEmpty

TwoStageNext == Tick \/ TwoStageMain

TwoStageSpec == Init /\ [][TwoStageNext]_vars

(* ------------------- the ring buffer on its own ----------------------- *)

\* the handles pushed: two distinct non-null handles
Handles == {1, 2}

\* the record of handles pushed and not yet popped is kept up to one more
\* than the ring can hold
MaxPending == N + 1

\* no more than N - 1 handles have been waiting in the ring at any time
WithinCapacity == calls = <<>> \/ calls[1].ok

\* scheduler_queue as constructed; the program itself is not started
RingInit ==
  /\ millis_c = 0
  /\ occupied = [i \in Slots |-> FALSE]
  /\ coroutines = <<>>
  /\ it = 1
  /\ itValid = TRUE
  /\ instant = NoTime
  /\ mpc = "ring"
  /\ caller = "spawn"
  /\ running = Null
  /\ spawned = 0
  /\ slot = [t \in Tasks |-> Null]
  /\ at = [t \in Tasks |-> "none"]
  /\ deadline = [t \in Tasks |-> NoTime]
  /\ pollable = [t \in Tasks |-> NoTime]
  /\ started = [t \in Tasks |-> NoTime]
  /\ awaits = [t \in Tasks |-> 0]
  /\ owed = [t \in Tasks |-> 0]
  /\ suspensions = [t \in Tasks |-> 0]
  /\ resumes = [t \in Tasks |-> 0]
  /\ pushes = 0
  /\ sweepMark = 0
  /\ sweepStart = <<>>
  /\ readyAtStart = {}
  /\ sweepPolled = <<>>
  /\ frame_size = FrameSize
  /\ calls = <<>>
  /\ ticks = 0
  /\ NoStage
  /\ NoRing

\* scheduler_queue::push_back(h)
RingPushBack ==
  /\ mpc = "ring"
  /\ Len(pending) < MaxPending
  /\ \E h \in Handles :
       /\ arr' = ring_push_back(arr, head, h)
       /\ pending' = Append(pending, h)
       /\ calls' = <<[op |-> "push_back", arg |-> h, ret |-> Null, pre |-> pending,
                      ok |-> WithinCapacity /\ Len(pending) + 1 < N]>>
  /\ head' = ring_next(head)
  /\ UNCHANGED <<tail, millis_c, occupied, queue, instant, prog, frames, hist, sweep,
                 frame_size, stage, ticks>>

\* scheduler_queue::try_pop_front()
RingTryPopFront ==
  /\ mpc = "ring"
  /\ LET h == ring_try_pop_front(arr, head, tail)
     IN /\ tail' = IF head # tail THEN ring_next(tail) ELSE tail
        /\ pending' = IF h = Null \/ Len(pending) = 0 THEN pending ELSE Tail(pending)
        /\ calls' = <<[op |-> "try_pop_front", arg |-> Null, ret |-> h,
                       pre |-> pending, ok |-> WithinCapacity]>>
  /\ UNCHANGED <<head, arr, millis_c, occupied, queue, instant, prog, frames, hist,
                 sweep, frame_size, stage, ticks>>

RingNext == RingPushBack \/ RingTryPopFront

RingSpec == RingInit /\ [][RingNext]_vars

(* ------------------ task creation on a used pool ---------------------- *)

\* the frame sizes operator new is called with: a release and a debug frame
\* of the tasks, a frame that just fits a slot, one that does not
FrameSizes == {FrameSizeRelease, FrameSize, el_size, el_size + 1}

\* main() is entered with the first k slots of the pool held by frames that
\* were created before and stay alive
CreateInit ==
  /\ millis_c = 0
  /\ \E k \in 0..el_count : occupied = [i \in Slots |-> i <= k]
  /\ coroutines = <<>>
  /\ it = 1
  /\ itValid = TRUE
  /\ instant = NoTime
  /\ mpc = "spawn"
  /\ caller = "spawn"
  /\ running = Null
  /\ spawned = 0
  /\ slot = [t \in Tasks |-> Null]
  /\ at = [t \in Tasks |-> "none"]
  /\ deadline = [t \in Tasks |-> NoTime]
  /\ pollable = [t \in Tasks |-> NoTime]
  /\ started = [t \in Tasks |-> NoTime]
  /\ awaits = [t \in Tasks |-> 0]
  /\ owed = [t \in Tasks |-> 0]
  /\ suspensions = [t \in Tasks |-> 0]
  /\ resumes = [t \in Tasks |-> 0]
  /\ pushes = 0
  /\ sweepMark = 0
  /\ sweepStart = <<>>
  /\ readyAtStart = {}
  /\ sweepPolled = <<>>
  /\ frame_size \in FrameSizes
  /\ calls = <<>>
  /\ ticks = 0
  /\ NoStage
  /\ NoRing

\* main() up to its driving loop: the tasks are created and run to their
\* first suspension or to their end
CreateNext ==
  \/ Tick \/ Spawn \/ SpawnDone \/ TaskDelay \/ AwaitReady \/ AwaitSuspend
  \/ TaskFinish

CreateSpec == CreateInit /\ [][CreateNext]_vars

(* ------------------------- properties: helpers ------------------------ *)

\* the occupancy a recorded call left behind
Post(i) == IF i = Len(calls) THEN occupied ELSE calls[i + 1].pre
Full(occ) == \A i \in Slots : occ[i]
Allocates(i) == calls[i].op = "allocate"
Deallocates(i) == calls[i].op = "deallocate"

\* the process was stopped while a task was being created
Stopped == mpc \in {"aborted", "crashed"}

\* the last call made on the Instant was mut_every
EveryCalled == calls # <<>> /\ calls[1].op = "mut_every"
\* ... and it has returned
EveryReturned == EveryCalled /\ calls[1].done /\ mpc = "instant"

\* the main thread is inside a poll_once call
InCall ==
  \/ mpc \in {"poll_init", "poll_every", "poll_reset", "sweep", "erase"}
  \/ mpc = "task" /\ caller = "resume"

\* a poll_once call has returned and the next one has not started
Returned == mpc = "loop" /\ sweepStart # <<>>

\* the entries of the queue that hold handle h
EntriesOf(h) == {i \in 1..Len(coroutines) : coroutines[i].h = h}
\* (a frame that is destroyed has no handle any more: its slot may be reused)
Queued(t) == Live(t) /\ EntriesOf(slot[t]) # {}

\* the numbers of the entries resumed in the current poll_once call
ResumedInCall == {sweepPolled[i].n : i \in {j \in 1..Len(sweepPolled) : sweepPolled[j].resumed}}
PolledInCall == {sweepPolled[i].n : i \in 1..Len(sweepPolled)}

\* resume() has been called through the entry under the iterator and the
\* entry is not erased yet
ResumeWindow ==
  /\ \/ mpc = "task" /\ caller = "resume"
     \/ mpc \in {"erase", "aborted"}
  /\ it <= Len(coroutines)
  /\ coroutines[it].r = 1

(* ------------------------------ claims -------------------------------- *)

\* C1: a suspended frame is never resumed early: every poll of poll_once that
\* resumed a frame read a clock value >= the deadline of the timer readiness
\* attached to that frame, and a frame leaves Suspended only in a step whose
\* clock value has reached that deadline.
C1_NoEarlyResume ==
  /\ [](\A i \in 1..Len(sweepPolled) : sweepPolled[i].resumed => sweepPolled[i].due)
  /\ [][\A t \in Tasks : (Suspended(t) /\ ~Suspended(t)') => now >= pollable[t]]_vars

\* C1 witness: a frame was resumed by a poll after an earlier poll of the same
\* call found an entry not yet due
C1_Witness ==
  /\ \E i \in 1..Len(sweepPolled) : sweepPolled[i].resumed
  /\ \E i \in 1..Len(sweepPolled) : ~sweepPolled[i].due

\* C2: for a task that has awaited delays d1..dk, the clock time since its
\* start is at least d1+...+dk whenever its body runs on after the k-th await
\* and when it has completed (delay(2) then delay(1) from T0: first resumed
\* at >= T0+2, completed at >= T0+3).
C2_ElapsedAtLeastSum ==
  \A t \in Tasks :
    at[t] \in {"body", "done"} => now - started[t] >= owed[t]

\* C2 witness: a task has completed two delays of 3 ticks together, suspended
\* by both, exactly 3 ticks after its start
C2_Witness ==
  \E t \in Tasks :
    /\ Completed(t)
    /\ awaits[t] = 2
    /\ owed[t] = 3
    /\ resumes[t] = 2
    /\ now = started[t] + 3

\* C3: each suspension is resumed exactly once: resume() is called at most
\* once through a queue entry and only on a Suspended frame, so a frame's
\* resumes never exceed its suspensions; and while the loop keeps polling,
\* a Suspended frame is eventually resumed.
C3_Safety ==
  /\ \A i \in 1..Len(coroutines) : coroutines[i].r <= 1
  /\ \A t \in Tasks :
       /\ resumes[t] <= suspensions[t]
       /\ suspensions[t] <= resumes[t] + 1
       /\ Suspended(t) <=> suspensions[t] = resumes[t] + 1

\* C3: the safety part in every state, and no frame stays Suspended for
\* ever: every suspension is followed by its resume, unless the process was
\* stopped in erase
C3_ResumedExactlyOnce ==
  /\ []C3_Safety
  /\ \A t \in Tasks : []<>(~Suspended(t) \/ mpc = "aborted")

\* C3 witness: a frame has been suspended twice and resumed twice
C3_Witness == \E t \in Tasks : suspensions[t] = 2 /\ resumes[t] = 2

\* C4: under fairness of the tick source and of the main thread the driving
\* loop terminates: main reaches "done" with every task Completed and the
\* queue empty.
C4_LoopTerminates ==
  <>(mpc = "done" /\ empty(coroutines) /\ \A t \in Tasks : Completed(t))

\* the loop ends or the process is stopped in erase
C4_TerminatesOrAborts ==
  <>(\/ mpc = "done" /\ empty(coroutines) /\ \A t \in Tasks : Completed(t)
     \/ mpc = "aborted")

\* C5 as stated: a poll_once call polls only entries that were queued when it
\* started, and resumes each frame at most once.
C5_SnapshotSweep ==
  /\ \A i \in 1..Len(sweepPolled) : sweepPolled[i].n <= sweepMark
  /\ \A i, j \in 1..Len(sweepPolled) :
       (i < j /\ sweepPolled[i].resumed /\ sweepPolled[j].resumed)
         => sweepPolled[i].h # sweepPolled[j].h

\* C5 amended: a poll_once call sweeps to the live end of the queue: an entry
\* that a resumed task re-queues during the call stands behind every entry
\* that was queued at the start, is polled later in that same call, and no
\* entry is polled twice in one call.
C5_LiveEndSweep ==
  /\ (InCall \/ Returned) =>
       \A i, j \in 1..Len(coroutines) :
         (coroutines[i].n <= sweepMark /\ sweepMark < coroutines[j].n) => i < j
  /\ \A i, j \in 1..Len(sweepPolled) : i < j => sweepPolled[i].n < sweepPolled[j].n
  /\ Returned => \A n \in (sweepMark + 1)..pushes : n \in PolledInCall

\* C5 witness: a call has returned in which an entry re-queued during the call
\* was polled and resumed again
C5_Witness ==
  /\ Returned
  /\ \E i \in 1..Len(sweepPolled) : sweepPolled[i].n > sweepMark /\ sweepPolled[i].resumed

\* C6: within one poll_once call frames are resumed in the order in which
\* their entries stand in the queue: the queue stands in push order, and the
\* entries resumed in a call are resumed in that order.
C6_ResumeInQueueOrder ==
  /\ \A i, j \in 1..Len(coroutines) : i < j => coroutines[i].n < coroutines[j].n
  /\ \A i, j \in 1..Len(sweepPolled) :
       (i < j /\ sweepPolled[i].resumed /\ sweepPolled[j].resumed)
         => sweepPolled[i].n < sweepPolled[j].n

\* C6 witness: two entries that were both queued at the start of a call were
\* resumed in it
C6_Witness ==
  \E i, j \in 1..Len(sweepPolled) :
    /\ i < j
    /\ sweepPolled[i].resumed /\ sweepPolled[j].resumed
    /\ sweepPolled[j].n <= sweepMark

\* C7: every entry that is queued with its deadline reached when a poll_once
\* call starts is resumed during that call: while the sweep runs it is either
\* resumed already or still ahead of the iterator, and when the call returns
\* it has been resumed.
C7_ReadyAtStartResumed ==
  /\ Returned => readyAtStart \subseteq ResumedInCall
  /\ mpc = "sweep" =>
       \A n \in readyAtStart \ ResumedInCall :
         \E i \in it..Len(coroutines) : coroutines[i].n = n

\* C7 witness: a call has returned that started with two entries due, the
\* first of which re-queued itself while the other task completed
C7_Witness ==
  /\ Returned
  /\ Cardinality(readyAtStart) = 2
  /\ pushes > sweepMark
  /\ \E t \in Tasks : Completed(t)

\* C8: when no entry polled in a poll_once call has its deadline reached, the
\* call resumes no frame and leaves the queue as it was: same length, same
\* entries, same order; and it has polled every entry when it returns.
C8_NoReadyNoChange ==
  ((InCall \/ Returned) /\ \A i \in 1..Len(sweepPolled) : ~sweepPolled[i].due) =>
     /\ coroutines = sweepStart
     /\ \A i \in 1..Len(sweepPolled) : ~sweepPolled[i].resumed
     /\ mpc # "task"
     /\ Returned => Len(sweepPolled) = Len(sweepStart)

\* C8 witness: a call over two entries, neither due, has returned
C8_Witness ==
  /\ Returned
  /\ Len(sweepPolled) = 2
  /\ \A i \in 1..Len(sweepPolled) : ~sweepPolled[i].due

\* C9 as stated: in every reachable state no frame is referenced by more than
\* one queue entry.
C9_NoDuplicateEntry == \A h \in Slots : Cardinality(EntriesOf(h)) <= 1

\* C9 amended: a frame is referenced by at most one queue entry, except
\* between the push_back of a resumed frame that suspends again and the erase
\* of the entry it was resumed through: there exactly that frame has two
\* entries, the old one under the iterator and the new one at the tail.
C9_DuplicateOnlyUntilErase ==
  \A h \in Slots :
    /\ Cardinality(EntriesOf(h)) <= 2
    /\ Cardinality(EntriesOf(h)) = 2 =>
         /\ ResumeWindow
         /\ mpc # "task"
         /\ it < Len(coroutines)
         /\ coroutines[it].h = h
         /\ coroutines[Len(coroutines)].h = h

\* C9 witness: a resumed frame has suspended again and its old entry is not
\* erased yet
C9_Witness == mpc = "erase" /\ \E h \in Slots : Cardinality(EntriesOf(h)) = 2

\* C10 as stated: in every reachable state a frame is in the queue if and
\* only if it is Suspended: every Suspended frame is queued, no Running frame
\* is, and no entry is the handle of a Completed (destroyed) frame.
C10_QueuedIffSuspended ==
  /\ \A t \in Tasks : Live(t) => (Queued(t) <=> Suspended(t))
  /\ \A i \in 1..Len(coroutines) : HasFrame(coroutines[i].h)

\* C10 amended: a Suspended frame is always in the queue, and every queue
\* entry is the handle of a Suspended frame except, from a resume to the erase
\* that follows it, the entry under the iterator, whose frame is Running,
\* Suspended again or Completed.
C10_QueuedIffSuspendedOutsideResume ==
  /\ \A t \in Tasks : Suspended(t) => Queued(t)
  /\ \A i \in 1..Len(coroutines) :
       \/ HasFrame(coroutines[i].h) /\ Suspended(FrameAt(coroutines[i].h))
       \/ ResumeWindow /\ i = it

\* C10 witness: a frame completed during its resume and its entry is still in
\* the queue, beside the entry of a Suspended frame
C10_Witness ==
  /\ mpc = "erase"
  /\ ~HasFrame(coroutines[it].h)
  /\ \E t \in Tasks : Suspended(t) /\ Queued(t)

\* C11 as stated: a frame holds a Readiness only while it is Suspended: a
\* Running frame has no timer_pollable attached.
C11_ReadinessOnlyWhileSuspended ==
  \A t \in Tasks : pollable[t] # NoTime => Suspended(t)

\* C11 amended: a Suspended frame holds the timer_pollable of its suspension;
\* resume() does not discard it: the frame goes on holding it while Running,
\* until its next suspending await replaces it or the frame is destroyed on
\* completion.  A frame that has never suspended holds none.
C11_ReadinessKeptUntilReplaced ==
  /\ [](\A t \in Tasks :
         /\ Suspended(t) => pollable[t] # NoTime
         /\ pollable[t] # NoTime <=> (Live(t) /\ suspensions[t] >= 1))
  /\ [][\A t \in Tasks :
          (pollable[t] # NoTime /\ pollable'[t] # pollable[t]) =>
             \/ Running(t) /\ Suspended(t)'
             \/ Running(t) /\ Completed(t)' /\ pollable'[t] = NoTime]_vars

\* C11 witness: a frame that poll_once has resumed is Running and still holds
\* the timer_pollable of the suspension that is over
C11_Witness ==
  \E t \in Tasks :
    /\ Running(t)
    /\ resumes[t] >= 1
    /\ pollable[t] # NoTime
    /\ now >= pollable[t]

\* C12: a promise holds at most one timer_pollable (one unique_ptr), and for
\* a Suspended, queued frame it carries the deadline of the co_await the
\* frame is suspended in, the most recent one (now-at-delay-call + d): the
\* deadline the awaitable was built with, not reached yet when the frame
\* suspends, whereas the deadline of every earlier await had been reached.
C12_PolledDeadlineIsLatest ==
  /\ [](\A t \in Tasks : Suspended(t) => (Queued(t) /\ pollable[t] = deadline[t]))
  /\ [][\A t \in Tasks :
          (~Suspended(t) /\ Suspended(t)') =>
             /\ pollable'[t] = deadline[t]
             /\ pollable'[t] > now]_vars

\* C12 witness: the sweep stands at the entry of a frame suspended for the
\* second time, in the call that resumed it from its first suspension
C12_Witness ==
  /\ mpc = "sweep"
  /\ it <= Len(coroutines)
  /\ HasFrame(coroutines[it].h)
  /\ Suspended(FrameAt(coroutines[it].h))
  /\ suspensions[FrameAt(coroutines[it].h)] = 2
  /\ \E i \in 1..Len(sweepPolled) :
       sweepPolled[i].h = coroutines[it].h /\ sweepPolled[i].resumed

\* C13: the occupied slots of the pool and the live (Running or Suspended)
\* frames are in one-to-one correspondence: every live frame lives in an
\* occupied slot, no two live frames share a slot, and every occupied slot
\* holds a live frame.
C13_SlotBijection ==
  /\ \A t \in Tasks : Live(t) => (slot[t] \in Slots /\ occupied[slot[t]])
  /\ \A t, u \in Tasks : (Live(t) /\ Live(u) /\ t # u) => slot[t] # slot[u]
  /\ \A i \in Slots : occupied[i] => \E t \in Tasks : Live(t) /\ slot[t] = i

\* C13 witness: two frames are live at once, one Suspended and one Running
C13_Witness ==
  \E t, u \in Tasks : Suspended(t) /\ Running(u) /\ occupied[slot[t]] /\ occupied[slot[u]]

\* C14: a frame keeps its slot from creation to completion: while it is
\* Running or Suspended its slot stays the same and stays occupied, also
\* across a suspend/resume cycle; the slot is released in the step in which
\* the frame becomes Completed, and in no other.
C14_SlotHeldUntilCompleted ==
  /\ [](\A t \in Tasks : Live(t) => (slot[t] \in Slots /\ occupied[slot[t]]))
  /\ [][\A t \in Tasks :
          /\ (Live(t) /\ Live(t)') => (slot'[t] = slot[t] /\ occupied'[slot[t]])
          /\ (Live(t) /\ Completed(t)') => (slot'[t] = slot[t] /\ ~occupied'[slot[t]])
          /\ (Live(t) /\ ~occupied'[slot[t]]) => Completed(t)']_vars

\* C14 witness: a frame that was suspended and resumed has completed and its
\* slot is free, while another frame is still live in its own slot
C14_Witness ==
  \E t, u \in Tasks :
    /\ Completed(t) /\ resumes[t] >= 1 /\ ~occupied[slot[t]]
    /\ Live(u) /\ occupied[slot[u]]

\* C15: allocate(size) with size <= S returns null if and only if all N slots
\* are occupied, so an allocate that follows N successful ones with none
\* released returns null; the failed call leaves the occupancy unchanged.
C15_NullIffFull ==
  \A i \in 1..Len(calls) :
    (Allocates(i) /\ calls[i].arg <= el_size) =>
      /\ calls[i].ret = Null <=> Full(calls[i].pre)
      /\ calls[i].ret = Null => Post(i) = calls[i].pre
      /\ calls[i].fresh =>
           \E k \in 0..el_count :
             /\ \A j \in Slots : calls[i].pre[j] <=> j <= k
             /\ calls[i].ret = Null <=> k = el_count

\* C15 witness: N allocations have succeeded, nothing was released, and a
\* further allocate of a frame returned null
C15_Witness ==
  /\ Len(calls) = 2
  /\ Allocates(1) /\ calls[1].ret = el_count
  /\ Allocates(2) /\ calls[2].fresh /\ calls[2].arg = FrameSize
  /\ calls[2].ret = Null
  /\ Full(occupied)

\* C16: allocate(size) with size > S returns null in every pool state, also
\* when slots are free, and marks no slot; size = S passes the size check: it
\* gets a slot whenever one is free.
C16_OversizeRejected ==
  \A i \in 1..Len(calls) :
    Allocates(i) =>
      /\ calls[i].arg > el_size => (calls[i].ret = Null /\ Post(i) = calls[i].pre)
      /\ (calls[i].arg = el_size /\ ~Full(calls[i].pre)) => calls[i].ret \in Slots

\* C16 witness: an allocate of exactly S bytes got a slot and the allocate
\* of S+1 bytes that followed returned null with slots still free
C16_Witness ==
  /\ Len(calls) = 2
  /\ Allocates(1) /\ calls[1].arg = el_size /\ calls[1].ret \in Slots
  /\ Allocates(2) /\ calls[2].arg = el_size + 1 /\ calls[2].ret = Null
  /\ ~Full(occupied)

\* C17: a successful allocate returns the lowest-indexed unoccupied slot and
\* marks exactly that slot; so the allocate (size <= S) that follows the
\* deallocate of an allocated p succeeds, and returns p's slot when the pool
\* was full before the deallocate.
C17_FirstFit ==
  /\ \A i \in 1..Len(calls) :
       (Allocates(i) /\ calls[i].ret # Null) =>
         /\ calls[i].ret \in Slots
         /\ ~calls[i].pre[calls[i].ret]
         /\ \A j \in 1..(calls[i].ret - 1) : calls[i].pre[j]
         /\ \A j \in Slots : Post(i)[j] <=> (calls[i].pre[j] \/ j = calls[i].ret)
  /\ (/\ Len(calls) = 2
      /\ Deallocates(1) /\ calls[1].arg \in Slots /\ calls[1].pre[calls[1].arg]
      /\ Allocates(2) /\ calls[2].arg <= el_size) =>
        /\ calls[2].ret # Null
        /\ Full(calls[1].pre) => calls[2].ret = calls[1].arg

\* C17 witness: the pool was full, a slot other than the first was released,
\* and the next allocate returned that slot
C17_Witness ==
  /\ Len(calls) = 2
  /\ Deallocates(1) /\ Full(calls[1].pre) /\ calls[1].arg \in 2..el_count
  /\ Allocates(2) /\ calls[2].ret = calls[1].arg
  /\ Full(occupied)

\* C18: deallocate(ptr) with a ptr that is no slot's storage terminates the
\* process and changes no occupancy; with a slot's storage it marks exactly
\* that slot free, leaves the others as they were, and returns.
C18_DeallocateChecked ==
  /\ \A i \in 1..Len(calls) :
       Deallocates(i) =>
         IF calls[i].arg \in Slots
         THEN /\ \A j \in Slots :
                   Post(i)[j] <=> (calls[i].pre[j] /\ j # calls[i].arg)
              /\ i = Len(calls) => mpc = "pool"
         ELSE /\ Post(i) = calls[i].pre
              /\ i = Len(calls)
              /\ mpc = "terminated"
  /\ mpc = "terminated" =>
       (calls # <<>> /\ Deallocates(Len(calls)) /\ calls[Len(calls)].arg \notin Slots)

\* C18 witness: an occupied slot was released, then a pointer outside the
\* pool was handed in: the process is terminated with the other slots still
\* occupied
C18_Witness ==
  /\ Len(calls) = 2
  /\ Deallocates(1) /\ calls[1].arg \in Slots /\ calls[1].pre[calls[1].arg]
  /\ Deallocates(2) /\ calls[2].arg = el_count + 1
  /\ mpc = "terminated"
  /\ \E j \in Slots : occupied[j]

\* C19: creating a task when the pool has no free slot, or when the frame is
\* larger than a slot, stops the process: the step that creates the task
\* ends in the stopped process and changes neither pool nor queue; the task
\* has no frame, none of its body has run, nothing is pushed, and nothing
\* happens afterwards.
C19_ExhaustionStopsCreation ==
  /\ [](Stopped =>
         /\ spawned < NumTasks
         /\ (Full(occupied) \/ frame_size > el_size)
         /\ \A t \in (spawned + 1)..NumTasks :
              /\ at[t] = "none" /\ slot[t] = Null /\ started[t] = NoTime
              /\ awaits[t] = 0 /\ suspensions[t] = 0
         /\ Len(coroutines) = Cardinality({t \in Tasks : Suspended(t)})
         /\ running = Null)
  /\ [][(mpc = "spawn" /\ spawned < NumTasks /\ mpc' # mpc
           /\ (Full(occupied) \/ frame_size > el_size)) =>
            (Stopped' /\ UNCHANGED <<occupied, coroutines, frames, hist, spawned>>)]_vars
  /\ [][Stopped => UNCHANGED <<occupied, queue, prog, frames, hist>>]_vars

\* C19 witness: the first task is Suspended in the last free slot and the
\* creation of the second one has stopped the process
C19_Witness ==
  /\ Stopped
  /\ spawned = 1
  /\ Suspended(1)
  /\ Full(occupied)
  /\ frame_size <= el_size
  /\ Len(coroutines) = 1

\* C20: elapsed() returns now - captured when now >= captured and
\* (MAX - captured) + now when now < captured, MAX being the largest value of
\* the unsigned tick representation; the result is a value of that
\* representation, and the call leaves the captured instant as it was.
C20_ElapsedFormula ==
  /\ [](\A i \in 1..Len(calls) :
         calls[i].op = "elapsed" =>
           /\ calls[i].ret \in 0..RepMax
           /\ calls[i].pre >= calls[i].arg => calls[i].arg + calls[i].ret = calls[i].pre
           /\ calls[i].pre < calls[i].arg =>
                calls[i].ret = (RepMax - calls[i].arg) + calls[i].pre
           /\ instant = calls[i].arg)
  /\ [][(calls' # calls /\ calls'[1].op = "elapsed") => instant' = instant]_vars

\* C20 witness: elapsed() was called after the counter had wrapped past the
\* captured instant
C20_Witness ==
  /\ calls # <<>>
  /\ calls[1].op = "elapsed"
  /\ calls[1].pre < calls[1].arg
  /\ calls[1].ret > 0
  /\ instant = calls[1].arg

\* C21: mut_every(d) returns true exactly when elapsed() >= d; it then sets
\* the captured instant to the clock value read by mut_reset (the current
\* one, not captured + d); when elapsed() < d it returns false at once and
\* leaves the captured instant as it was.
C21_MutEvery ==
  /\ [](EveryCalled =>
         /\ calls[1].ret <=> elapsed(calls[1].pre, calls[1].was) >= calls[1].arg
         /\ ~calls[1].ret => (calls[1].done /\ mpc = "instant")
         /\ (calls[1].done /\ ~calls[1].ret) => instant = calls[1].was
         /\ (calls[1].done /\ calls[1].ret) =>
              (instant + ticks) % (RepMax + 1) = now)
  /\ [][(mpc = "instant_reset" /\ mpc' = "instant") =>
          (instant' = now' /\ calls'[1].ret /\ calls'[1].done)]_vars

\* C21 witness: mut_every(d) has returned true more than d ticks after the
\* capture, and the captured instant is the current clock value, which is
\* not the old instant + d
C21_Witness ==
  /\ EveryReturned
  /\ calls[1].ret
  /\ calls[1].arg > 0
  /\ ticks = 0
  /\ instant = now
  /\ instant # (calls[1].was + calls[1].arg) % (RepMax + 1)

\* C22 as stated: for every duration d, a mut_every(d) that returns true
\* comes at least d ticks after the capture made by the true return before
\* it, and right after a true return elapsed() < d.
C22_AtMostOncePerWindow ==
  /\ (EveryCalled /\ calls[1].ret) => calls[1].since >= calls[1].arg
  /\ (EveryReturned /\ calls[1].ret /\ ticks = 0) =>
       elapsed(now, instant) < calls[1].arg

\* C22 amended: the same for every duration d > 0; with d = 0 every call
\* returns true and elapsed() is 0, not below d, right after it.
C22_AtMostOncePerPositiveWindow ==
  /\ (EveryCalled /\ calls[1].ret) => calls[1].since >= calls[1].arg
  /\ (EveryReturned /\ calls[1].ret /\ ticks = 0) =>
       /\ elapsed(now, instant) = 0
       /\ calls[1].arg > 0 => elapsed(now, instant) < calls[1].arg
  /\ (EveryCalled /\ calls[1].arg = 0) => calls[1].ret

\* C22 witness: mut_every(d), d >= 2, has returned true exactly d ticks
\* after the capture before it
C22_Witness ==
  /\ EveryReturned
  /\ calls[1].ret
  /\ calls[1].arg >= 2
  /\ calls[1].since = calls[1].arg
  /\ ticks = 0

\* C23: the clock counter changes only by the tick handler, by exactly 1 per
\* tick and with nothing else changing in that step; it never decreases, so
\* a value read earlier (a task's start, the instant of poll_once, the clock
\* a held deadline was computed from) is never above a value read later.
C23_ClockMonotone ==
  /\ [][millis_c' # millis_c =>
          /\ millis_c' = millis_c + 1
          /\ UNCHANGED <<env, occupied, queue, instant, prog, frames, hist, sweep>>]_vars
  /\ [][now' >= now]_vars
  /\ [](/\ instant <= now
         /\ \A t \in Tasks :
              /\ started[t] <= now
              /\ deadline[t] # NoTime => deadline[t] - MaxDelay <= now)

\* C23 witness: a task was started after the first tick, and both its start
\* and the instant of poll_once lie ticks behind the present clock value
C23_Witness ==
  /\ instant # NoTime /\ instant < now
  /\ \E t \in Tasks : started[t] > 0 /\ started[t] < instant

\* C24: timer readiness is monotonic: while a frame holds the same
\* timer_pollable, once its poll() (now >= deadline) is true it is true
\* after every later step, whatever ticks occur; so it goes from false to
\* true at most once.
C24_ReadinessMonotone ==
  [][\A t \in Tasks :
       (/\ pollable[t] # NoTime
        /\ pollable'[t] = pollable[t]
        /\ poll(now, pollable[t])) => poll(now', pollable'[t])]_vars

\* C24 witness: a Suspended frame whose deadline was reached two ticks ago,
\* still ready
C24_Witness ==
  \E t \in Tasks :
    /\ Suspended(t)
    /\ now = pollable[t] + 2
    /\ poll(now, pollable[t])

\* C25: starting a task runs its body inside the creating call, up to its
\* first suspending await or its end: whenever control is back in main every
\* task created so far is Suspended and queued, or Completed; so before the
\* first poll_once the queue holds the Suspended tasks in creation order.
C25_EagerStart ==
  /\ mpc = "task" => (running \in Tasks /\ Running(running))
  /\ (mpc = "task" /\ caller = "spawn") => running = spawned
  /\ mpc \in {"spawn", "loop"} =>
       /\ \A t \in 1..spawned : (Suspended(t) /\ Queued(t)) \/ Completed(t)
       /\ \A t \in (spawned + 1)..NumTasks : at[t] = "none"
  /\ (mpc \in {"spawn", "loop"} /\ sweepStart = <<>>) =>
       /\ Len(coroutines) = Cardinality({t \in Tasks : Suspended(t)})
       /\ \A i, j \in 1..Len(coroutines) :
            i < j => FrameAt(coroutines[i].h) < FrameAt(coroutines[j].h)

\* C25 witness: main stands before its first poll_once with both tasks
\* Suspended and queued, the first created in front
C25_Witness ==
  /\ mpc = "loop"
  /\ sweepStart = <<>>
  /\ Len(coroutines) = 2
  /\ FrameAt(coroutines[1].h) = 1
  /\ FrameAt(coroutines[2].h) = 2

\* C26: an await whose deadline is reached at await_ready, or at the
\* re-check in await_suspend, does not suspend: the frame goes on Running,
\* the await attaches no timer_pollable and pushes nothing.  Otherwise
\* await_suspend attaches one timer_pollable with the awaitable's deadline
\* and pushes the frame's handle once, at the tail.
C26_AwaitDecides ==
  /\ [][\A t \in Tasks :
          /\ (at[t] = "await_ready" /\ at'[t] # at[t]) =>
               /\ at'[t] = IF now >= deadline[t] THEN "body" ELSE "await_suspend"
               /\ UNCHANGED <<pollable, coroutines, pushes, suspensions>>
          /\ (at[t] = "await_suspend" /\ at'[t] # at[t]) =>
               IF now >= deadline[t]
               THEN /\ at'[t] = "body"
                    /\ UNCHANGED <<pollable, coroutines, pushes, suspensions>>
               ELSE /\ at'[t] = "suspended"
                    /\ pollable'[t] = deadline[t]
                    /\ \A u \in Tasks \ {t} : pollable'[u] = pollable[u]
                    /\ Len(coroutines') = Len(coroutines) + 1
                    /\ SubSeq(coroutines', 1, Len(coroutines)) = coroutines
                    /\ coroutines'[Len(coroutines')].h = slot[t]
                    /\ pushes' = pushes + 1]_vars
  /\ [](pushes = TotalSuspensions(NumTasks))

\* C26 witness: a task has passed an await of a delay > 0 without being
\* suspended (ticks brought the deadline before the await decided), while
\* the other task was suspended by its await and is queued
C26_Witness ==
  \E t, u \in Tasks :
    /\ at[t] = "body" /\ awaits[t] = 1 /\ owed[t] >= 1 /\ suspensions[t] = 0
    /\ pollable[t] = NoTime
    /\ Suspended(u) /\ suspensions[u] = 1 /\ Len(coroutines) = 1

\* C27: tasks are never preempted: at most one frame is Running, it is the
\* one the main thread is executing, and while it stays Running no other
\* frame changes and neither main nor the scheduler takes a step: only the
\* running task's own steps and clock ticks occur.
C27_NoPreemption ==
  /\ [](/\ Cardinality({t \in Tasks : Running(t)}) <= 1
         /\ \A t \in Tasks : Running(t) => (mpc = "task" /\ running = t))
  /\ [][\A t \in Tasks :
          (Running(t) /\ Running(t)') =>
             /\ \A u \in Tasks \ {t} :
                  /\ at'[u] = at[u] /\ slot'[u] = slot[u]
                  /\ pollable'[u] = pollable[u] /\ deadline'[u] = deadline[u]
             /\ UNCHANGED <<occupied, queue, instant, prog, sweep>>]_vars
  /\ [][\A t \in Tasks :
          (Running(t) /\ ~Running(t)') =>
             /\ Suspended(t)' \/ Completed(t)'
             /\ \A u \in Tasks \ {t} : at'[u] = at[u]]_vars

\* C27 witness: a resumed task is in the middle of an await while the other
\* task is Suspended with its deadline already reached
C27_Witness ==
  \E t, u \in Tasks :
    /\ at[t] = "await_suspend" /\ resumes[t] >= 1
    /\ Suspended(u) /\ now >= pollable[u]

\* C28: in every reachable state empty() is true if and only if the queue
\* has length 0; so the driving loop of main, which tests it, leaves exactly
\* when no entry is queued and otherwise calls poll_once.
C28_EmptyIffNoEntry ==
  /\ [](empty(coroutines) <=> Len(coroutines) = 0)
  /\ [](mpc = "done" => Len(coroutines) = 0)
  /\ [][(mpc = "loop" /\ mpc' # mpc) =>
          (mpc' = "done" <=> Len(coroutines) = 0)]_vars

\* C28 witness: the loop has ended on an empty queue after poll_once had
\* resumed both tasks
C28_Witness ==
  /\ mpc = "done"
  /\ empty(coroutines)
  /\ \A t \in Tasks : resumes[t] >= 1

\* C29: every poll_once call returns to the driving loop after finitely many
\* steps of the main thread, whether or not a tick ever arrives: a sweep ends
\* even when resumed tasks queue themselves again and ticks occur during it.
C29_PollOnceReturns == InCall ~> (mpc = "loop")

\* the call returns or the process is stopped in erase
C29_ReturnsOrAborts == InCall ~> (mpc = "loop" \/ mpc = "aborted")

\* C30: a frame's state changes only Running -> Suspended (an await that
\* suspends), Suspended -> Running (resume by poll_once) and
\* Running -> Completed (the body finishes).  Completed is terminal, a
\* Suspended frame is never Completed without being resumed, and a Completed
\* frame is never resumed: no entry poll_once reaches holds its handle.
C30_FrameTransitions ==
  /\ [][\A t \in Tasks :
          /\ (Running(t) /\ ~Running(t)') =>
                \/ /\ Suspended(t)'
                   /\ at[t] = "await_suspend"
                   /\ suspensions'[t] = suspensions[t] + 1
                \/ /\ Completed(t)'
                   /\ at[t] = "body"
          /\ (Suspended(t) /\ ~Suspended(t)') =>
                /\ Running(t)'
                /\ mpc = "sweep"
                /\ resumes'[t] = resumes[t] + 1
          /\ Completed(t) => (Completed(t)' /\ resumes'[t] = resumes[t])
          /\ (resumes'[t] # resumes[t]) => (Suspended(t) /\ Running(t)')]_vars
  /\ []((mpc = "sweep" /\ ~at_end(it, coroutines)) => HasFrame(coroutines[it].h))

\* C30 witness: a frame has gone Running -> Suspended -> Running ->
\* Completed while poll_once goes on to the entry of a Suspended frame
C30_Witness ==
  /\ mpc = "sweep"
  /\ ~at_end(it, coroutines)
  /\ \E t, u \in Tasks :
       /\ Completed(t) /\ suspensions[t] >= 1 /\ resumes[t] >= 1
       /\ Suspended(u) /\ coroutines[it].h = slot[u]

\* C31: elapsed() stays correct across one wraparound of the tick counter:
\* when k ticks, 0 <= k <= MAX, have occurred since the instant was captured,
\* elapsed() returns exactly k, also when the counter went from MAX to 0 in
\* between (elapsed = (now - captured) mod 2^w).
C31_ElapsedCountsTicks ==
  (calls # <<>> /\ calls[1].op = "elapsed" /\ calls[1].since <= RepMax) =>
    /\ calls[1].ret = calls[1].since
    /\ calls[1].ret = (calls[1].pre - calls[1].arg) % (RepMax + 1)

\* elapsed() is exact while the counter has not wrapped since the capture and
\* one short of the tick count when it has wrapped once
C31_OneShortAcrossWrap ==
  (calls # <<>> /\ calls[1].op = "elapsed" /\ calls[1].since <= RepMax) =>
    /\ calls[1].pre >= calls[1].arg => calls[1].ret = calls[1].since
    /\ calls[1].pre < calls[1].arg => calls[1].ret = calls[1].since - 1

\* the place in the polls of the call at which handle h was resumed last
LastResume(h) ==
  CHOOSE i \in 1..Len(sweepPolled) :
    /\ sweepPolled[i].resumed /\ sweepPolled[i].h = h
    /\ \A j \in (i + 1)..Len(sweepPolled) :
         ~(sweepPolled[j].resumed /\ sweepPolled[j].h = h)

\* the entries of q that a call found queued and did not resume
Retained(q) ==
  SelectSeq(q, LAMBDA e : e.n <= sweepMark /\ e.n \notin ResumedInCall)

MovedHandles ==
  LET m == SelectSeq(sweepPolled, LAMBDA r : r.moved)
  IN [i \in 1..Len(m) |-> m[i].h]
\* the events of q that poll_events has not moved in the current round
NotMoved(q) ==
  SelectSeq(q, LAMBDA e : \A i \in 1..Len(sweepPolled) :
                            sweepPolled[i].n = e.n => ~sweepPolled[i].moved)
\* run_and_empty is executing
InRun == mpc = "run" \/ (mpc = "task" /\ caller = "resume")

\* C33: in the two-stage scheduler poll_events moves exactly the events whose
\* deadline is reached to the run queue, in registration order, and leaves
\* the others in place; run_and_empty resumes every handle of the run queue
\* exactly once, in FIFO order, and leaves the run queue empty; done() is true
\* if and only if the event list and the run queue are both empty.
C33_TwoStage ==
  /\ mpc = "poll_events" =>
       /\ \A i \in 1..Len(sweepPolled) : sweepPolled[i].moved <=> sweepPolled[i].due
       /\ \A i, j \in 1..Len(sweepPolled) : i < j => sweepPolled[i].n < sweepPolled[j].n
       /\ conts = MovedHandles
       /\ events = NotMoved(sweepStart)
  /\ InRun =>
       /\ Len(sweepPolled) = Len(sweepStart)
       /\ runStart = MovedHandles
       /\ runResumed \o conts = runStart
       /\ \A i \in 1..Len(events) :
            events[i].n <= (IF sweepStart = <<>> THEN 0 ELSE sweepStart[Len(sweepStart)].n)
              => (events[i] \in {sweepStart[j] : j \in 1..Len(sweepStart)}
                  /\ events[i].n \notin {sweepPolled[j].n : j \in {k \in 1..Len(sweepPolled) : sweepPolled[k].moved}})
  /\ mpc = "ev_loop" => (Len(conts) = 0 /\ runResumed = runStart)
  /\ done(conts, events) <=> (Len(conts) = 0 /\ Len(events) = 0)
  /\ mpc = "ev_done" => (Len(conts) = 0 /\ Len(events) = 0)

\* C33 witness: a poll_events call over two events has moved the second and
\* left the first, and run_and_empty has resumed the handle that was moved
C33_Witness ==
  /\ mpc = "run"
  /\ Len(sweepStart) = 2
  /\ ~sweepPolled[1].moved /\ sweepPolled[2].moved
  /\ Len(runStart) = 1
  /\ runResumed = runStart
  /\ Len(conts) = 0
  /\ events[1] = sweepStart[1]

\* the number of occupied slots of the pool
Occupied(occ) == Cardinality({i \in DOMAIN occ : occ[i]})

\* C34: at every point between two poll_once calls of the driving loop, where
\* no task is Running, the queue length equals the number of occupied pool
\* slots and the number of tasks started and not yet completed; so when the
\* loop ends on an empty queue every pool slot is free.
C34_QueueMatchesPool ==
  /\ mpc = "loop" =>
       /\ \A t \in Tasks : ~Running(t)
       /\ Len(coroutines) = Occupied(occupied)
       /\ Len(coroutines) = Cardinality({t \in Tasks : Live(t)})
  /\ mpc = "done" =>
       /\ Len(coroutines) = 0
       /\ Occupied(occupied) = 0
       /\ \A t \in Tasks : Completed(t)

\* C34 witness: between two calls, after one task has completed inside a
\* call, one entry is queued and one slot is occupied
C34_Witness ==
  /\ mpc = "loop"
  /\ Len(coroutines) = 1
  /\ Occupied(occupied) = 1
  /\ \E t, u \in Tasks : Completed(t) /\ resumes[t] >= 1 /\ Suspended(u)

\* C35: the scheduler never polls or resumes a frame whose pool slot has been
\* released: when a resumed task runs to completion inside poll_once, its
\* entry is removed without being dereferenced again, in that sweep and in
\* all later ones.  Every entry the sweep can reach holds the handle of a
\* Suspended frame in an occupied slot; the one entry that does not is the
\* entry under the iterator between resume() and erase.
C35_NoUseAfterRelease ==
  /\ \A i \in 1..Len(coroutines) :
       IF coroutines[i].r = 0
       THEN /\ coroutines[i].h \in Slots
            /\ occupied[coroutines[i].h]
            /\ HasFrame(coroutines[i].h)
            /\ Suspended(FrameAt(coroutines[i].h))
       ELSE /\ coroutines[i].r = 1
            /\ i = it
            /\ mpc \in {"task", "erase", "aborted"}
  /\ \A i, j \in 1..Len(sweepPolled) : i # j => sweepPolled[i].n # sweepPolled[j].n
  /\ (mpc = "erase" /\ itValid) => \A t \in Tasks : slot[t] = coroutines[it].h => Completed(t)

\* C35 witness: a task resumed in the current sweep has completed and its
\* slot is free, its entry is gone, and the sweep has another entry to poll
C35_Witness ==
  /\ mpc = "sweep"
  /\ ~at_end(it, coroutines)
  /\ \E i \in 1..Len(sweepPolled) :
       /\ sweepPolled[i].resumed
       /\ ~occupied[sweepPolled[i].h]
       /\ \A j \in 1..Len(coroutines) : coroutines[j].h # sweepPolled[i].h

\* C36: deallocate(ptr) with the storage address of a slot marks the slot
\* free and returns normally whether or not the slot was occupied: a second
\* deallocate of the same pointer is accepted silently (no terminate) and
\* leaves the pool as the first left it.
C36_DoubleDeallocate ==
  /\ \A i \in 1..Len(calls) :
       (Deallocates(i) /\ calls[i].arg \in Slots) =>
         /\ ~Post(i)[calls[i].arg]
         /\ ~calls[i].pre[calls[i].arg] => Post(i) = calls[i].pre
         /\ i = Len(calls) => mpc = "pool"
  /\ (/\ Len(calls) = 2
      /\ Deallocates(1) /\ Deallocates(2)
      /\ calls[1].arg \in Slots /\ calls[2].arg = calls[1].arg) =>
        /\ occupied = calls[2].pre
        /\ mpc = "pool"

\* C36 witness: an occupied slot was released twice in a row while another
\* slot stays occupied, and the pool goes on
C36_Witness ==
  /\ Len(calls) = 2
  /\ Deallocates(1) /\ calls[1].arg \in Slots /\ calls[1].pre[calls[1].arg]
  /\ Deallocates(2) /\ calls[2].arg = calls[1].arg
  /\ mpc = "pool"
  /\ \E j \in Slots : occupied[j]

\* C37: allocate never returns a slot that is occupied: over any sequence of
\* allocate and deallocate calls the pointers returned by successful
\* allocations and not deallocated since are pairwise distinct (a new one is
\* none of those outstanding), and at most N slots are occupied.
C37_NoDoubleAllocation ==
  /\ \A i \in 1..Len(calls) :
       (Allocates(i) /\ calls[i].ret # Null) =>
         /\ calls[i].ret \in Slots
         /\ ~calls[i].pre[calls[i].ret]
         /\ i > 1 => calls[i].ret \notin calls[i - 1].out
         /\ calls[i].ret \in calls[i].out
  /\ Outstanding = {i \in Slots : occupied[i]}
  /\ Cardinality(Outstanding) <= el_count

\* C37 witness: with the pool full a slot was released and allocated again,
\* and all N outstanding pointers are distinct
C37_Witness ==
  /\ Len(calls) = 2
  /\ Deallocates(1) /\ Full(calls[1].pre) /\ calls[1].arg \in Slots
  /\ Allocates(2) /\ calls[2].ret # Null
  /\ Cardinality(Outstanding) = el_count

\* the entries that the sweep has stepped over and that wait for the same
\* deadline as the frame it has just resumed
SkippedSameDeadline ==
  {i \in 1..(it - 1) :
     /\ HasFrame(coroutines[i].h)
     /\ pollable[FrameAt(coroutines[i].h)] = pollable[running]}

\* C38 as stated: of two frames queued with the same deadline the one
\* standing earlier in the queue is resumed before the one standing later,
\* also when ticks occur between the polls of one sweep: when a frame is
\* resumed, no entry before it in the queue waits for the same deadline.
C38_SameDeadlineInOrder ==
  (mpc = "task" /\ caller = "resume") => SkippedSameDeadline = {}

\* C38 amended: the earlier frame is resumed first whenever the deadline is
\* reached when the sweep polls it, in particular when it is reached at the
\* start of the call; the later frame is resumed first only when the earlier
\* one was polled before the deadline and a tick reached it between the two
\* polls.
C38_InOrderUnlessTickBetween ==
  /\ (mpc = "task" /\ caller = "resume") =>
       \A i \in SkippedSameDeadline :
         \E k \in 1..Len(sweepPolled) :
           /\ sweepPolled[k].n = coroutines[i].n
           /\ ~sweepPolled[k].due
           /\ ~sweepPolled[k].resumed
  /\ \A k \in 1..Len(sweepPolled) :
       sweepPolled[k].resumed =>
         \A n \in readyAtStart : n < sweepPolled[k].n => n \in ResumedInCall

\* C38 witness: two frames wait for the same deadline; the sweep polled the
\* first before the deadline, a tick came, and it has resumed the second
C38_Witness ==
  /\ mpc = "task" /\ caller = "resume"
  /\ SkippedSameDeadline # {}
  /\ readyAtStart = {}

\* C39: mut_elapsed_and_reset() returns the elapsed duration since the
\* captured instant and sets the captured instant to the current clock value,
\* so that an elapsed() made right after it, with no tick in between,
\* returns 0.
C39_ElapsedAndReset ==
  (calls # <<>> /\ calls[1].op = "mut_elapsed_and_reset") =>
    /\ calls[1].ret = elapsed(calls[1].pre, calls[1].arg)
    /\ instant = calls[1].pre
    /\ now = calls[1].pre => elapsed(now, instant) = 0

\* mut_elapsed_and_reset() returns what elapsed() returns and leaves the
\* captured instant as it was
C39_ElapsedNoReset ==
  (calls # <<>> /\ calls[1].op = "mut_elapsed_and_reset") =>
    /\ calls[1].ret = elapsed(calls[1].pre, calls[1].arg)
    /\ instant = calls[1].arg

\* C40: for any sequence of push_back and try_pop_front calls on the ring
\* buffer, try_pop_front returns the pushed handles in FIFO order with none
\* lost or overwritten, and returns a null handle exactly when every pushed
\* handle has been popped, also when N or more handles are pushed without a
\* pop in between.
C40_RingFifo ==
  (calls # <<>> /\ calls[1].op = "try_pop_front") =>
    calls[1].ret = (IF Len(calls[1].pre) = 0 THEN Null ELSE Head(calls[1].pre))

\* the same while no more than N - 1 handles have ever been waiting
C40_RingFifoWithinCapacity ==
  /\ (calls # <<>> /\ calls[1].op = "try_pop_front" /\ calls[1].ok) =>
       calls[1].ret = (IF Len(calls[1].pre) = 0 THEN Null ELSE Head(calls[1].pre))
  /\ WithinCapacity =>
       /\ Len(pending) = (head - tail) % N
       /\ \A i \in 1..Len(pending) : pending[i] = arr[(tail + i - 1) % N]

====
